---- MODULE Spec2Model ----
(***************************************************************************)
(* The discrete-event simulation engine of NOSE-Event-Simulation:           *)
(* SchedulerDES (des.py), Process (process.py) and Event (event.py).        *)
(*                                                                          *)
(* The engine's run() is modelled statement group by statement group (pc).  *)
(* The two policy hooks, scheduler_func and dispatcher_func, are the        *)
(* engine's environment: the selection is any process or None, and a        *)
(* dispatch is a sequence of calls of the process API (the process_state    *)
(* setter, run_for) ended by a returned Event or by an exception.  The      *)
(* history variable breaches counts the calls that depart from the plugin   *)
(* contract documented at des.py:213-230, so breaches = 0 characterises a   *)
(* run driven by a contract-following policy.  Times are integers.          *)
(***************************************************************************)
EXTENDS Integers, Sequences, FiniteSets, TLC

\* ------------------------------------------------------------------ bounds
MaxProcs == 2       \* the largest num_processes an engine is constructed with
MaxGap == 1         \* an inter-arrival draw is in 0..MaxGap
MaxService == 2     \* a service-time draw is in 1..MaxService
MaxBreaches == 1    \* calls by which a policy may depart from its contract in one run

\* Context-switch costs the constructor accepts: the default 0.0 and one positive cost.
ContextSwitchTimes == {0, 1}
\* Mean burst lengths the constructor accepts: 0 (instantaneous) and a positive one.
AvgCpuBurstTimes == {0, 1}

\* ------------------------------------------------------------------ types
ProcessStates == {"NEW", "READY", "RUNNING", "TERMINATED"}
EventTypes == {"PROC_ARRIVES", "PROC_CPU_REQ", "PROC_CPU_DONE"}

\* None, for process_on_cpu and for the selection of a policy that selects nothing.
NoProc == -1
NoEvent == [process_id |-> NoProc, event_type |-> "None", event_time |-> 0]
NoCall == [quantum |-> 0, cur_time |-> 0, process_id |-> NoProc, n |-> 0]

VARIABLES
    pc,                   \* new (__init__ not yet run), rejected (__init__ raised), then the
                          \* position in run(): idle, gen, loop, update, select, switch, dispatch, followup, done, aborted
    error,                \* the exception that ended the run, "" if none
    num_processes,        \* self.num_processes
    arrivals_per_time_unit, \* self._arrivals_per_time_unit
    context_switch_time,  \* self.context_switch_time
    avg_cpu_burst_time,   \* self._avg_cpu_burst_time
    self_quantum,         \* self.quantum
    time,                 \* self.time
    events_queue,         \* self.events_queue
    processes,            \* self.processes
    process_on_cpu,       \* self.process_on_cpu (a process id, or NoProc)
    cur_time,             \* local of generate_and_init
    cur_event,            \* local of run
    process_to_run,       \* local of run
    ret_event,            \* local of run
    dpc,                  \* how far the dispatch in progress has followed the contract
    call,                 \* the last run_for call of the dispatch in progress: its arguments, and
                          \* n, the number of run_for calls of this dispatch so far
    actually_run_for,     \* value returned by that call
    breaches,             \* history: contract-breaking calls of the policy in this run
    atClock,              \* history: every run_for of this run was given cur_time = self.time
    conforming            \* history: every selection returned a READY process when there was one, and
                          \* every dispatch touched the selected process only and returned PROC_CPU_REQ
                          \* leaving it READY or PROC_CPU_DONE leaving it TERMINATED

vars == <<pc, error, num_processes, arrivals_per_time_unit, context_switch_time,
          avg_cpu_burst_time, self_quantum, time,
          events_queue, processes, process_on_cpu, cur_time, cur_event,
          process_to_run, ret_event, dpc, call, actually_run_for, breaches, atClock,
          conforming>>

config == <<num_processes, arrivals_per_time_unit, context_switch_time, avg_cpu_burst_time,
            self_quantum>>
locals == <<cur_event, process_to_run, ret_event>>
policy == <<dpc, call, actually_run_for>>

\* ------------------------------------------------------------------ helpers
Min(a, b) == IF a < b THEN a ELSE b

ProcIds == 0 .. (Len(processes) - 1)
\* self.processes[i]
Proc(i) == processes[i + 1]

\* Event.__lt__: sorts based solely on event time.
EventLt(self, other) == self.event_time < other.event_time

\* bisect.bisect_right(a, x, lo, hi) with Event.__lt__ (0-based lo, hi).
RECURSIVE bisect_right(_, _, _, _)
bisect_right(a, x, lo, hi) ==
    IF lo < hi
    THEN LET mid == (lo + hi) \div 2
         IN  IF EventLt(x, a[mid + 1])
             THEN bisect_right(a, x, lo, mid)
             ELSE bisect_right(a, x, mid + 1, hi)
    ELSE lo

\* a.insert(lo, x)
InsertAt(a, lo, x) == SubSeq(a, 1, lo) \o <<x>> \o SubSeq(a, lo + 1, Len(a))

\* A variant of insort that appends instead of searching for the insertion point.
insort_append(a, x) == Append(a, x)

\* A variant of insort that inserts ahead of the queued events that are not earlier than
\* the new one (the insertion point of bisect_left in a sorted queue).
insort_left(a, x) ==
    InsertAt(a, Cardinality({k \in 1 .. Len(a) : EventLt(a[k], x)}), x)

\* bisect.insort(a, x)
insort(a, x) == InsertAt(a, bisect_right(a, x, 0, Len(a)), x)

\* Event(process_id=..., event_type=..., event_time=...): the constructor's checks.
EventValid(e) ==
    /\ e.event_type \in EventTypes
    /\ e.event_time >= 0
    /\ e.process_id >= 0

Event(pid, type, t) == [process_id |-> pid, event_type |-> type, event_time |-> t]

\* Process(process_id=..., arrival_time=..., service_time=...): the constructor's checks.
ProcessValid(pid, arrival, service) ==
    /\ pid >= 0
    /\ arrival >= 0
    /\ service > 0

Process(pid, arrival, service) ==
    [process_id |-> pid, arrival_time |-> arrival, process_state |-> "NEW",
     service_time |-> service, remaining_time |-> service, execution_times |-> <<>>]

\* ------------------------------------------------------------------ __init__
\* The arguments SchedulerDES is constructed with: the values it accepts and, for each
\* argument, values on and beyond the edge of what it accepts.
NumProcessesArgs == (0 - 1) .. MaxProcs
ArrivalRateArgs == (0 - 1) .. 1
AvgCpuBurstTimeArgs == AvgCpuBurstTimes \cup {0 - 1}
ContextSwitchTimeArgs == ContextSwitchTimes \cup {0 - 1}
QuantumArgs == (0 - 1) .. 1

\* A variant of the five checks that lets num_processes = 0 through.
ConfigValid_AllowsNoProcesses ==
    /\ num_processes >= 0
    /\ arrivals_per_time_unit > 0
    /\ avg_cpu_burst_time >= 0
    /\ context_switch_time >= 0
    /\ self_quantum > 0

\* The five checks of __init__.
ConfigValid ==
    /\ num_processes > 0
    /\ arrivals_per_time_unit > 0
    /\ avg_cpu_burst_time >= 0
    /\ context_switch_time >= 0
    /\ self_quantum > 0

\* The call SchedulerDES(num_processes=..., ...) before the body of __init__ has run.
Init ==
    /\ pc = "new"
    /\ error = ""
    /\ num_processes \in NumProcessesArgs
    /\ arrivals_per_time_unit \in ArrivalRateArgs
    /\ context_switch_time \in ContextSwitchTimeArgs
    /\ avg_cpu_burst_time \in AvgCpuBurstTimeArgs
    /\ self_quantum \in QuantumArgs
    /\ time = 0
    /\ events_queue = <<>>
    /\ processes = <<>>
    /\ process_on_cpu = NoProc
    /\ cur_time = 0
    /\ cur_event = NoEvent
    /\ process_to_run = NoProc
    /\ ret_event = NoEvent
    /\ dpc = "none"
    /\ call = NoCall
    /\ actually_run_for = 0
    /\ breaches = 0
    /\ atClock = TRUE
    /\ conforming = TRUE

\* __init__: the checks, then the fields; a ValueError leaves no engine to generate or
\* run with.
Construct ==
    /\ pc = "new"
    /\ IF ConfigValid
       THEN pc' = "idle" /\ error' = error
       ELSE pc' = "rejected" /\ error' = "ValueError: configuration"
    /\ time' = 0
    /\ events_queue' = <<>>
    /\ processes' = <<>>
    /\ process_on_cpu' = NoProc
    /\ UNCHANGED <<config, cur_time, locals, policy, breaches, atClock, conforming>>

\* ------------------------------------------------------------------ generate_and_init
\* __reset()
Reset ==
    /\ time' = 0
    /\ events_queue' = <<>>
    /\ processes' = <<>>
    /\ process_on_cpu' = NoProc

\* run() -> generate_and_init(): __reset(), cur_time = 0.  A new run may be started on a
\* fresh engine, after a completed run and after an aborted one.
StartGenerate ==
    /\ pc \in {"idle", "done", "aborted"}
    /\ Reset
    /\ cur_time' = 0
    /\ pc' = "gen"
    /\ error' = ""
    /\ cur_event' = NoEvent
    /\ process_to_run' = NoProc
    /\ ret_event' = NoEvent
    /\ dpc' = "none"
    /\ call' = NoCall
    /\ actually_run_for' = 0
    /\ breaches' = 0
    /\ atClock' = TRUE
    /\ conforming' = TRUE
    /\ UNCHANGED config

\* The draws of random.exponential: a mean of 0 always draws 0.
ArrivalDraws == 0 .. MaxGap
ServiceDraws == IF avg_cpu_burst_time = 0 THEN {0} ELSE 1 .. MaxService

\* One iteration of "for i in range(self.num_processes)".
GenerateStep(gap, service) ==
    LET i == Len(processes)
        t == cur_time + gap
    IN  /\ pc = "gen"
        /\ i < num_processes
        /\ cur_time' = t
        /\ IF ProcessValid(i, t, service)
           THEN /\ processes' = Append(processes, Process(i, t, service))
                /\ events_queue' = insort(events_queue, Event(i, "PROC_ARRIVES", t))
                /\ pc' = IF i + 1 < num_processes THEN "gen" ELSE "loop"
                /\ error' = error
           ELSE /\ pc' = "aborted"
                /\ error' = "ValueError: service_time"
                /\ UNCHANGED <<processes, events_queue>>
        /\ UNCHANGED <<config, time, process_on_cpu, locals, policy, breaches, atClock,
                   conforming>>

Generate == \E gap \in ArrivalDraws, service \in ServiceDraws : GenerateStep(gap, service)

\* ------------------------------------------------------------------ run: the loop
\* "while self.events_queue:" is false: the run ends normally.
LoopExit ==
    /\ pc = "loop"
    /\ events_queue = <<>>
    /\ pc' = "done"
    /\ UNCHANGED <<error, config, time, events_queue, processes, process_on_cpu, cur_time,
                   locals, policy, breaches, atClock, conforming>>

\* A variant of the removal that does not advance the clock to the popped event's time.
PopEvent_KeepsClock ==
    /\ pc = "loop"
    /\ events_queue # <<>>
    /\ cur_event' = Head(events_queue)
    /\ events_queue' = Tail(events_queue)
    /\ pc' = "update"
    /\ UNCHANGED <<error, config, time, processes, process_on_cpu, cur_time, process_to_run,
                   ret_event, policy, breaches, atClock, conforming>>

\* popleft() and the advance of the clock to the popped event's time.
PopEvent ==
    /\ pc = "loop"
    /\ events_queue # <<>>
    /\ cur_event' = Head(events_queue)
    /\ events_queue' = Tail(events_queue)
    /\ time' = IF time < Head(events_queue).event_time
               THEN Head(events_queue).event_time
               ELSE time
    /\ pc' = "update"
    /\ UNCHANGED <<error, config, processes, process_on_cpu, cur_time, process_to_run,
                   ret_event, policy, breaches, atClock, conforming>>

\* A variant of the promotion that misses a process arriving exactly at the clock.
Promoted_StrictlyEarlier(p) ==
    IF p.arrival_time < time /\ p.process_state = "NEW"
    THEN [p EXCEPT !.process_state = "READY"]
    ELSE p

\* __update_process_states()
Promoted(p) ==
    IF p.arrival_time <= time /\ p.process_state = "NEW"
    THEN [p EXCEPT !.process_state = "READY"]
    ELSE p

UpdateProcessStates ==
    /\ pc = "update"
    /\ processes' = [i \in 1 .. Len(processes) |-> Promoted(processes[i])]
    /\ pc' = "select"
    /\ UNCHANGED <<error, config, time, events_queue, process_on_cpu, cur_time, locals,
                   policy, breaches, atClock, conforming>>

HasReady == \E i \in ProcIds : Proc(i).process_state = "READY"

\* A variant of the selection step that checks only that a process was selected.
SelectStep_NoStateCheck(choice) ==
    /\ pc = "select"
    /\ process_to_run' = choice
    /\ IF choice = NoProc
       THEN /\ pc' = "aborted"
            /\ error' = "ValueError: no process selected"
       ELSE /\ pc' = "switch"
            /\ error' = error
    /\ UNCHANGED <<config, time, events_queue, processes, process_on_cpu, cur_time,
                   cur_event, ret_event, policy, breaches, atClock, conforming>>

\* process_to_run = self.scheduler_func(cur_event) and the two checks on it.
SelectStep(choice) ==
    /\ pc = "select"
    /\ process_to_run' = choice
    /\ IF choice = NoProc
       THEN /\ pc' = "aborted"
            /\ error' = "ValueError: no process selected"
            /\ dpc' = dpc
       ELSE IF Proc(choice).process_state # "READY"
       THEN /\ pc' = "aborted"
            /\ error' = "ValueError: not in runnable state"
            /\ dpc' = dpc
       ELSE /\ pc' = "switch"
            /\ error' = error
            /\ dpc' = dpc
    \* a policy that does not return a READY process although there is one breaks its contract
    /\ breaches' = IF /\ breaches = 0
                      /\ HasReady
                      /\ (choice = NoProc \/ Proc(choice).process_state # "READY")
                   THEN 1 ELSE breaches
    /\ conforming' = (/\ conforming
                      /\ ~(/\ HasReady
                           /\ (choice = NoProc \/ Proc(choice).process_state # "READY")))
    /\ UNCHANGED <<config, time, events_queue, processes, process_on_cpu, cur_time,
                   cur_event, ret_event, call, actually_run_for, atClock>>

Select == \E choice \in ProcIds \cup {NoProc} : SelectStep(choice)

\* A variant of the context switch that charges the cost on every dispatch.
ContextSwitch_AlwaysCharges ==
    /\ pc = "switch"
    /\ process_on_cpu' = process_to_run
    /\ time' = time + context_switch_time
    /\ pc' = "dispatch"
    /\ dpc' = "start"
    /\ UNCHANGED <<error, config, events_queue, processes, cur_time, locals, call,
                   actually_run_for, breaches, atClock, conforming>>

\* "if process_to_run != self.process_on_cpu:" and the context-switch cost.
ContextSwitch ==
    /\ pc = "switch"
    /\ IF process_to_run # process_on_cpu
       THEN /\ process_on_cpu' = process_to_run
            /\ time' = time + context_switch_time
       ELSE UNCHANGED <<process_on_cpu, time>>
    /\ pc' = "dispatch"
    /\ dpc' = "start"
    /\ UNCHANGED <<error, config, events_queue, processes, cur_time, locals, call,
                   actually_run_for, breaches, atClock, conforming>>

\* ------------------------------------------------------------------ the process API
\* The process_state setter: any ProcessStates value is stored.
SetterAccepts(value) == value \in ProcessStates

process_state_setter(p, value) == [p EXCEPT !.process_state = value]

\* A variant of run_for that does not clamp the quantum to the remaining time.
run_for_unclamped(p, quantum, t) ==
    [process |-> [p EXCEPT !.remaining_time = @ - quantum,
                           !.execution_times = Append(@, <<t, t + quantum>>)],
     result  |-> quantum]

\* A variant of run_for that records the interval with the requested quantum.
run_for_records_quantum(p, quantum, t) ==
    LET actually == Min(quantum, p.remaining_time)
    IN  [process |-> [p EXCEPT !.remaining_time = @ - actually,
                               !.execution_times = Append(@, <<t, t + quantum>>)],
         result  |-> actually]

\* run_for(quantum, cur_time): the process after the call, and the value returned.
run_for(p, quantum, t) ==
    LET actually == Min(quantum, p.remaining_time)
    IN  [process |-> [p EXCEPT !.remaining_time = @ - actually,
                               !.execution_times = Append(@, <<t, t + actually>>)],
         result  |-> actually]

\* What a query of a process gives: the exception it raises ("" when it returns) and the
\* value it returns.
Raised(exception) == [raised |-> exception, value |-> 0]
Returned(v) == [raised |-> "", value |-> v]

\* A variant of departure_time that does not look at the state of the process.
departure_time_unchecked(p) ==
    IF p.execution_times = <<>>
    THEN Raised("IndexError")
    ELSE Returned(p.execution_times[Len(p.execution_times)][2])

\* The departure_time property: self._execution_times[-1][1] of a TERMINATED process.
departure_time(p) ==
    IF p.process_state # "TERMINATED"
    THEN Raised("ValueError")
    ELSE IF p.execution_times = <<>>
    THEN Raised("IndexError")
    ELSE Returned(p.execution_times[Len(p.execution_times)][2])

\* turnaround_time(): self.departure_time - self._arrival_time
turnaround_time(p) ==
    LET departure == departure_time(p)
    IN  IF departure.raised # ""
        THEN departure
        ELSE Returned(departure.value - p.arrival_time)

\* The loop of waiting_time(): "for t in self._execution_times".
RECURSIVE waiting_loop(_, _, _)
waiting_loop(ivs, prev_time, sum_waiting_time) ==
    IF ivs = <<>>
    THEN sum_waiting_time
    ELSE waiting_loop(Tail(ivs), Head(ivs)[2], sum_waiting_time + Head(ivs)[1] - prev_time)

\* A variant of waiting_time that counts from time 0 instead of the arrival time.
waiting_time_from_zero(p) == waiting_loop(p.execution_times, 0, 0)

\* waiting_time(): the gaps before the first interval and between the intervals.
waiting_time(p) == waiting_loop(p.execution_times, p.arrival_time, 0)

\* ------------------------------------------------------------------ run: the dispatch
\* ret_event = self.dispatcher_func(process_to_run).  The hook is the policy's: it calls
\* the setter and run_for and returns an Event, or raises.  dpc follows the contract of
\* des.py:221-230 and of the process life cycle (process.py:6-16):
\*   start -[state = RUNNING]-> running -[run_for(q > 0, self.time)]-> ran
\*         -[state = TERMINATED if nothing remains, else READY]-> set -[return]->
\* where the returned event is PROC_CPU_DONE for a terminated process and PROC_CPU_REQ
\* otherwise, carries the process's id and the time the execution ended at.  Every other
\* call is a breach; a policy makes at most MaxBreaches of them in one run.
Quanta == (0 - 1) .. MaxService
\* The times a policy stamps on an execution or on an event: around the clock.
StartTimes == {t \in (time - 1) .. (time + 1) : t >= 0}
EventTimes == {t \in (time - 1) .. (time + MaxService) : t >= 0} \cup {time + actually_run_for}
StateValues == ProcessStates \cup {"INVALID"}

FinalState(p) == IF p.remaining_time = 0 THEN "TERMINATED" ELSE "READY"

ContractEvent ==
    Event(process_to_run,
          IF Proc(process_to_run).process_state = "TERMINATED"
          THEN "PROC_CPU_DONE" ELSE "PROC_CPU_REQ",
          time + actually_run_for)

\* The returned event goes with the state the dispatch left the selected process in:
\* PROC_CPU_REQ with READY, PROC_CPU_DONE with TERMINATED.
ReturnConforms(e) ==
    \/ e.event_type = "PROC_CPU_REQ" /\ Proc(process_to_run).process_state = "READY"
    \/ e.event_type = "PROC_CPU_DONE" /\ Proc(process_to_run).process_state = "TERMINATED"

Breach(ok) ==
    /\ ok \/ breaches < MaxBreaches
    /\ breaches' = IF ok THEN breaches ELSE breaches + 1

PolicySetState(i, value) ==
    LET begins == dpc = "start" /\ i = process_to_run /\ value = "RUNNING"
        ends   == dpc = "ran" /\ i = process_to_run /\ value = FinalState(Proc(i))
    IN  /\ pc = "dispatch"
        /\ Breach(begins \/ ends)
        /\ IF SetterAccepts(value)
           THEN /\ processes' = [processes EXCEPT ![i + 1] = process_state_setter(@, value)]
                /\ dpc' = IF begins THEN "running" ELSE IF ends THEN "set" ELSE dpc
                /\ UNCHANGED <<pc, error>>
           ELSE /\ pc' = "aborted"
                /\ error' = "ValueError: not a ProcessStates value"
                /\ UNCHANGED <<processes, dpc>>
        /\ conforming' = (conforming /\ i = process_to_run /\ SetterAccepts(value))
        /\ UNCHANGED <<config, time, events_queue, process_on_cpu, cur_time, locals, call,
                       actually_run_for, atClock>>

PolicyRunFor(quantum, t) ==
    LET i == process_to_run
        r == run_for(Proc(i), quantum, t)
    IN  /\ pc = "dispatch"
        /\ Breach(dpc = "running" /\ quantum > 0 /\ t = time)
        /\ processes' = [processes EXCEPT ![i + 1] = r.process]
        /\ actually_run_for' = r.result
        /\ call' = [quantum |-> quantum, cur_time |-> t, process_id |-> i, n |-> call.n + 1]
        /\ dpc' = "ran"
        /\ atClock' = (atClock /\ t = time)
        /\ conforming' = conforming
        /\ UNCHANGED <<pc, error, config, time, events_queue, process_on_cpu, cur_time,
                       locals>>

PolicyReturn(e) ==
    /\ pc = "dispatch"
    /\ EventValid(e)
    /\ Breach(dpc = "set" /\ e = ContractEvent)
    /\ ret_event' = e
    /\ pc' = "followup"
    /\ dpc' = "none"
    /\ conforming' = (conforming /\ ReturnConforms(e))
    /\ UNCHANGED <<error, config, time, events_queue, processes, process_on_cpu, cur_time,
                   cur_event, process_to_run, call, actually_run_for, atClock>>

\* The hook raises at its first statement (FCFS.dispatcher_func does, schedulers.py:11):
\* the run is aborted.
PolicyRaise ==
    /\ pc = "dispatch"
    /\ dpc = "start"
    /\ pc' = "aborted"
    /\ error' = "exception in dispatcher_func"
    /\ breaches' = IF breaches = 0 THEN 1 ELSE breaches
    /\ conforming' = FALSE
    /\ UNCHANGED <<config, time, events_queue, processes, process_on_cpu, cur_time, locals,
                   policy, atClock>>

Dispatch ==
    \/ \E i \in ProcIds, value \in StateValues : PolicySetState(i, value)
    \/ \E quantum \in Quanta, t \in StartTimes : PolicyRunFor(quantum, t)
    \/ \E i \in ProcIds, type \in EventTypes, t \in EventTimes : PolicyReturn(Event(i, type, t))
    \/ PolicyRaise

\* A variant of the follow-up step that never queues the resulting event.
Followup_DropsRequest ==
    /\ pc = "followup"
    /\ time' = ret_event.event_time
    /\ pc' = "loop"
    /\ cur_event' = NoEvent
    /\ process_to_run' = NoProc
    /\ ret_event' = NoEvent
    /\ call' = NoCall
    /\ actually_run_for' = 0
    /\ UNCHANGED <<error, config, events_queue, processes, process_on_cpu, cur_time, dpc,
                   breaches, atClock, conforming>>

\* A variant of the follow-up step that leaves the clock where the dispatch found it.
Followup_KeepsClock ==
    /\ pc = "followup"
    /\ events_queue' = IF ret_event.event_type # "PROC_CPU_DONE"
                       THEN insort(events_queue, ret_event)
                       ELSE events_queue
    /\ pc' = "loop"
    /\ cur_event' = NoEvent
    /\ process_to_run' = NoProc
    /\ ret_event' = NoEvent
    /\ call' = NoCall
    /\ actually_run_for' = 0
    /\ UNCHANGED <<error, config, time, processes, process_on_cpu, cur_time, dpc, breaches,
                   atClock, conforming>>

\* A variant of the follow-up step that queues the resulting event whatever its type.
Followup_QueuesDone ==
    /\ pc = "followup"
    /\ events_queue' = insort(events_queue, ret_event)
    /\ time' = ret_event.event_time
    /\ pc' = "loop"
    /\ cur_event' = NoEvent
    /\ process_to_run' = NoProc
    /\ ret_event' = NoEvent
    /\ call' = NoCall
    /\ actually_run_for' = 0
    /\ UNCHANGED <<error, config, processes, process_on_cpu, cur_time, dpc, breaches, atClock,
                   conforming>>

\* The resulting event is queued unless it is PROC_CPU_DONE, and the clock is set to its time.
Followup ==
    /\ pc = "followup"
    /\ events_queue' = IF ret_event.event_type # "PROC_CPU_DONE"
                       THEN insort(events_queue, ret_event)
                       ELSE events_queue
    /\ time' = ret_event.event_time
    /\ pc' = "loop"
    /\ cur_event' = NoEvent
    /\ process_to_run' = NoProc
    /\ ret_event' = NoEvent
    /\ call' = NoCall
    /\ actually_run_for' = 0
    /\ UNCHANGED <<error, config, processes, process_on_cpu, cur_time, dpc, breaches, atClock,
                   conforming>>

\* ------------------------------------------------------------------ specification
Next ==
    \/ Construct
    \/ StartGenerate
    \/ Generate
    \/ LoopExit
    \/ PopEvent
    \/ UpdateProcessStates
    \/ Select
    \/ ContextSwitch
    \/ Dispatch
    \/ Followup

Spec == Init /\ [][Next]_vars

\* run() is sequential code: it keeps executing while it has a next statement.
FairSpec == Spec /\ WF_vars(Next)

\* ------------------------------------------------------------------ properties
StateOf(i) == Proc(i).process_state
Unterminated == {i \in ProcIds : StateOf(i) # "TERMINATED"}

\* C1: after every insertion into the event queue (the ARRIVAL inserts of
\* generate_and_init, the follow-up insert of the loop) and after every removal of its
\* front element, the queue scanned front to back is non-decreasing in event_time.
C1_QueueSorted ==
    \A k \in 1 .. (Len(events_queue) - 1) :
        events_queue[k].event_time <= events_queue[k + 1].event_time

\* C1 witness: a follow-up event was inserted ahead of a queued arrival.
C1_Witness ==
    /\ pc = "loop"
    /\ Len(events_queue) = 2
    /\ events_queue[1].event_type = "PROC_CPU_REQ"
    /\ events_queue[2].event_type = "PROC_ARRIVES"
    /\ events_queue[1].event_time < events_queue[2].event_time

\* C2: the clock never moves backward during a run: whatever step the run takes (the
\* advance to a popped event's time, the context-switch cost, the assignment of the
\* follow-up event's time), the clock afterwards is at least the clock before.  (The
\* reset that starts a new run is not a step of the run.)
C2_ClockNeverMovesBackward == [][pc' = "gen" \/ time' >= time]_vars

\* The step is a selection step whose result is no process, or a process that is not READY.
C3_SelectionStepReturnsUnrunnable ==
    /\ pc = "select"
    /\ IF process_to_run' \in ProcIds THEN StateOf(process_to_run') # "READY" ELSE TRUE

\* C3: when the selection step returns no process, or a process that is not READY,
\* the run aborts in that very step: the context-switch cost is not added, process_on_cpu
\* and the processes are untouched, and no dispatch follows (an aborted run takes no
\* further step; only a new run can follow).
C3_AbortsBeforeDispatch ==
    /\ [][C3_SelectionStepReturnsUnrunnable =>
            /\ pc' = "aborted"
            /\ time' = time
            /\ process_on_cpu' = process_on_cpu
            /\ processes' = processes
            /\ events_queue' = events_queue]_vars
    /\ [][pc = "aborted" => pc' = "gen"]_vars

\* C3 witness: a run aborted because the selected process was TERMINATED, after an
\* earlier dispatch had put a process on the CPU.
C3_Witness ==
    /\ pc = "aborted"
    /\ error = "ValueError: not in runnable state"
    /\ process_to_run \in ProcIds
    /\ StateOf(process_to_run) = "TERMINATED"
    /\ process_on_cpu # NoProc

\* C4: whenever the event queue is empty at the start of a loop iteration while some
\* process is not TERMINATED, the engine fails with a fatal error instead of ending the
\* run normally.
C4_EmptyQueueWithLiveProcessIsFatal ==
    [][(pc = "loop" /\ events_queue = <<>> /\ Unterminated # {}) => pc' = "aborted"]_vars

\* The run has left the loop with an empty queue and every process TERMINATED.
C5_Exited == pc = "done" /\ events_queue = <<>> /\ Unterminated = {}

\* C5: a run driven by a contract-following policy (breaches = 0 throughout) eventually
\* leaves the loop, and when it has left it the queue is empty and every process is
\* TERMINATED; it is never aborted by the selection checks.
C5_ContractRunTerminates ==
    /\ (pc = "loop") ~> (C5_Exited \/ breaches > 0)
    /\ []((pc = "done" /\ breaches = 0) => C5_Exited)
    /\ []((pc = "aborted" /\ breaches = 0) => error = "ValueError: service_time")

\* C5 witness: a contract-following run of two processes has ended, one of them
\* having been preempted on the way.
C5_Witness ==
    /\ C5_Exited
    /\ breaches = 0
    /\ Len(processes) = 2
    /\ \E i \in ProcIds : Len(Proc(i).execution_times) >= 2

\* When a process is about to be given the CPU, the previous holder is that same process
\* or is no longer RUNNING.
C6_PreviousHolderDemoted ==
    (pc = "switch" /\ process_on_cpu # NoProc /\ process_on_cpu # process_to_run)
        => StateOf(process_on_cpu) # "RUNNING"

\* C6: at every point of a run at most one process is RUNNING, whatever the policy
\* does, because the driver loop itself sees to it: when a process is dispatched, the
\* previous CPU holder is that same process or is no longer RUNNING.
C6_AtMostOneRunning ==
    /\ Cardinality({i \in ProcIds : StateOf(i) = "RUNNING"}) <= 1
    /\ C6_PreviousHolderDemoted

\* The transitions of the process life cycle.
LegalTransitions ==
    {<<"NEW", "READY">>, <<"READY", "RUNNING">>, <<"RUNNING", "READY">>,
     <<"RUNNING", "TERMINATED">>}

\* C7: a process's state changes only along NEW->READY, READY->RUNNING, RUNNING->READY
\* and RUNNING->TERMINATED; any other requested change, in particular any change out of
\* TERMINATED, is rejected and leaves the state as it was.
C7_OnlyLegalTransitions ==
    [][\A k \in 1 .. Len(processes) :
          k <= Len(processes') =>
              \/ processes'[k].process_state = processes[k].process_state
              \/ <<processes[k].process_state, processes'[k].process_state>>
                     \in LegalTransitions]_vars

\* Sum of (end - start) over a sequence of execution intervals.
RECURSIVE SumDurations(_)
SumDurations(ivs) ==
    IF ivs = <<>> THEN 0 ELSE (Head(ivs)[2] - Head(ivs)[1]) + SumDurations(Tail(ivs))

\* C8: in a run driven by a contract-following policy, every TERMINATED process has
\* executed for exactly its service_time in total and has remaining_time 0.
C8_ConservationOfDemand ==
    breaches = 0 =>
        \A i \in ProcIds :
            StateOf(i) = "TERMINATED" =>
                /\ SumDurations(Proc(i).execution_times) = Proc(i).service_time
                /\ Proc(i).remaining_time = 0

\* C8 witness: a process terminated after a run_for whose quantum exceeded what remained.
C8_Witness ==
    /\ breaches = 0
    /\ pc = "dispatch"
    /\ call.quantum > actually_run_for
    /\ StateOf(process_to_run) = "TERMINATED"
    /\ Len(Proc(process_to_run).execution_times) = 2

\* Each interval starts no earlier than the previous one ends, and starts strictly
\* increase.
IntervalsOrdered(ivs) ==
    \A k \in 1 .. (Len(ivs) - 1) :
        /\ ivs[k][2] <= ivs[k + 1][1]
        /\ ivs[k][1] < ivs[k + 1][1]

\* C9 as stated: in a run in which every execution starts at the engine's current
\* clock, the execution intervals of every process are non-overlapping and strictly
\* increasing in start time.
C9_OrderedWhenRunAtClock ==
    atClock => \A i \in ProcIds : IntervalsOrdered(Proc(i).execution_times)

\* C9 amended: in a run driven by a contract-following policy (one execution per
\* dispatch, for a positive duration, starting at the current clock, the follow-up event
\* stamped with the time the execution ended at), the execution intervals of every
\* process are non-overlapping and strictly increasing in start time.
C9_OrderedUnderContract ==
    breaches = 0 => \A i \in ProcIds : IntervalsOrdered(Proc(i).execution_times)

\* C9 witness: under a contract-following policy a process was preempted, waited while
\* the other process ran, and was resumed.
C9_Witness ==
    /\ breaches = 0
    /\ \E i \in ProcIds :
          /\ Len(Proc(i).execution_times) = 2
          /\ Proc(i).execution_times[1][2] < Proc(i).execution_times[2][1]

\* The step is a call of run_for with a positive quantum.
C10_RunForStep == call'.n = call.n + 1 /\ call'.quantum > 0

\* C10: a run_for call with a positive quantum runs the process for
\* d = min(quantum, remaining_time): remaining_time decreases by exactly d, exactly one
\* interval (cur_time, cur_time + d) is appended to execution_times, d is returned, and
\* neither the process state nor any earlier interval (nor any other process) changes.
C10_RunForEffect ==
    [][C10_RunForStep =>
          LET k == call'.process_id + 1
              before == processes[k]
              after == processes'[k]
              d == IF call'.quantum < before.remaining_time
                   THEN call'.quantum ELSE before.remaining_time
              n == Len(before.execution_times)
          IN  /\ after.remaining_time = before.remaining_time - d
              /\ Len(after.execution_times) = n + 1
              /\ after.execution_times[n + 1] = <<call'.cur_time, call'.cur_time + d>>
              /\ \A j \in 1 .. n : after.execution_times[j] = before.execution_times[j]
              /\ actually_run_for' = d
              /\ after.process_state = before.process_state
              /\ after.process_id = before.process_id
              /\ after.arrival_time = before.arrival_time
              /\ after.service_time = before.service_time
              /\ \A j \in 1 .. Len(processes) : j # k => processes'[j] = processes[j]]_vars

\* C10 witness: run_for was given a quantum larger than the remaining time of a
\* process that had run before, and returned the remaining time.
C10_Witness ==
    /\ pc = "dispatch"
    /\ call.n = 1
    /\ call.quantum = 2
    /\ actually_run_for = 1
    /\ Len(Proc(process_to_run).execution_times) = 2
    /\ Proc(process_to_run).remaining_time = 0

\* A step that is a call of run_for with a requested duration that is zero or negative.
C11_NonPositiveRequest == call'.n = call.n + 1 /\ call'.quantum <= 0

\* C11: run_for called with a requested duration that is zero or negative fails with an
\* error surfaced to the caller (the dispatch, and with it the run, is aborted) and leaves
\* remaining_time and the execution intervals of every process unchanged.
C11_NonPositiveRequestRejected ==
    [][C11_NonPositiveRequest => pc' = "aborted" /\ processes' = processes]_vars

\* A call of run_for neither raises the remaining time of a process nor takes it below 0.
C12_RunForNeverRaisesRemaining ==
    [][call'.n = call.n + 1 =>
         \A i \in ProcIds :
            /\ processes'[i + 1].remaining_time <= Proc(i).remaining_time
            /\ processes'[i + 1].remaining_time >= 0]_vars

\* Between two iterations of the loop, and when the loop has ended, a process with nothing
\* left to run is TERMINATED.
C12_ExhaustedIsTerminated ==
    pc \in {"loop", "done"} =>
        \A i \in ProcIds : Proc(i).remaining_time = 0 => StateOf(i) = "TERMINATED"

\* C12: across any sequence of run_for calls remaining_time never increases and never
\* drops below 0, and at the end of every loop iteration a process whose remaining_time
\* is 0 is TERMINATED.
C12_RemainingTimeMonotone ==
    C12_RunForNeverRaisesRemaining /\ [](C12_ExhaustedIsTerminated)

C14_Cost == IF process_to_run # process_on_cpu THEN context_switch_time ELSE 0

\* C14: in every iteration the clock advances by exactly context_switch_time before the
\* dispatch when the selected process differs from process_on_cpu and by nothing when it
\* does not, and process_on_cpu becomes the selected process; process_on_cpu is empty
\* until the first dispatch of a run, which therefore pays, and changes nowhere else in
\* a run, so that a process selected again in the next iteration pays nothing.
C14_ContextSwitchCost ==
    [][/\ pc = "switch" =>
            /\ pc' = "dispatch"
            /\ process_to_run # NoProc
            /\ time' = time + C14_Cost
            /\ process_on_cpu' = process_to_run
            /\ process_on_cpu = NoProc => time' = time + context_switch_time
            /\ processes' = processes /\ events_queue' = events_queue
       /\ pc # "switch" /\ pc' # "gen" => process_on_cpu' = process_on_cpu
       /\ pc' = "gen" => process_on_cpu' = NoProc]_vars

\* The only process was charged for its first dispatch, was preempted, and has just been
\* selected again at no cost: the clock still is where its first interval ended.
C14_Witness ==
    /\ pc = "dispatch" /\ dpc = "start" /\ breaches = 0
    /\ context_switch_time = 1
    /\ process_on_cpu = process_to_run
    /\ Len(processes) = 1
    /\ Len(Proc(0).execution_times) = 1
    /\ Proc(0).execution_times[1][1] = Proc(0).arrival_time + context_switch_time
    /\ time = Proc(0).execution_times[1][2]

\* The configurations the constructor has to refuse.
C15_BadConfiguration ==
    \/ num_processes <= 0
    \/ arrivals_per_time_unit <= 0
    \/ avg_cpu_burst_time < 0
    \/ context_switch_time < 0
    \/ self_quantum <= 0

\* C15: constructing the engine with num_processes <= 0, arrivals_per_time_unit <= 0,
\* avg_cpu_burst_time < 0, context_switch_time < 0 or quantum <= 0 fails at construction
\* time: the constructor raises, and neither then nor later is any process or event
\* generated.
C15_BadConfigurationRejected ==
    /\ [][pc = "new" /\ C15_BadConfiguration =>
            pc' = "rejected" /\ error' = "ValueError: configuration"]_vars
    /\ [](C15_BadConfiguration =>
            /\ pc \in {"new", "rejected"}
            /\ processes = <<>>
            /\ events_queue = <<>>)

\* The constructor has refused num_processes = 0, the other arguments being acceptable.
C15_Witness ==
    /\ pc = "rejected"
    /\ error = "ValueError: configuration"
    /\ num_processes = 0
    /\ arrivals_per_time_unit > 0 /\ avg_cpu_burst_time >= 0
    /\ context_switch_time >= 0 /\ self_quantum > 0
    /\ processes = <<>> /\ events_queue = <<>>

\* C16: for every configuration the constructor accepts, avg_cpu_burst_time = 0 included,
\* generate_and_init creates the processes and their arrival events one after the other
\* and raises no validation error: each step of the generation leaves it either under
\* way or complete with all num_processes processes and events.
C16_GenerationNeverRaises ==
    [][pc = "gen" =>
          /\ pc' \in {"gen", "loop"}
          /\ error' = ""
          /\ Len(processes') = Len(processes) + 1
          /\ Len(events_queue') = Len(events_queue) + 1
          /\ pc' = "loop" => Len(processes') = num_processes]_vars

\* The state generate_and_init has to leave: clock 0, nothing on the CPU, num_processes
\* processes with ids 0 .. num_processes - 1, all NEW and not yet run, and one arrival
\* event per process, at its arrival time, and no other event.
C17_FreshWorkload ==
    /\ time = 0
    /\ process_on_cpu = NoProc
    /\ Len(processes) = num_processes
    /\ \A i \in ProcIds :
          /\ Proc(i).process_id = i
          /\ StateOf(i) = "NEW"
          /\ Proc(i).remaining_time = Proc(i).service_time
          /\ Proc(i).execution_times = <<>>
    /\ Len(events_queue) = num_processes
    /\ \A i \in ProcIds :
          \E k \in 1 .. Len(events_queue) :
             /\ events_queue[k] = Event(i, "PROC_ARRIVES", Proc(i).arrival_time)
             /\ \A j \in 1 .. Len(events_queue) : events_queue[j].process_id = i => j = k

\* C17: generate_and_init invoked on a fresh engine, after a completed run or after an
\* aborted run resets instead of accumulating: when it is over the clock is 0, nothing is
\* on the CPU, and the processes and the queue are exactly the num_processes new
\* processes and their arrival events.
C17_GenerateResets ==
    [][pc = "gen" /\ pc' # "gen" => C17_FreshWorkload']_vars

\* The event a step of the generation or the follow-up step of the loop inserts.
C19_Inserted ==
    IF pc = "followup"
    THEN ret_event
    ELSE Event(Len(processes), "PROC_ARRIVES", cur_time')

\* C19: among queued events with equal event_time removal order is insertion order: an
\* insertion leaves the events already queued in their order and puts the new event
\* behind every queued event with the same event_time, the loop removes the head of the
\* queue only, and no other step of a run touches the queue.
C19_FifoAmongEqualTimes ==
    [][/\ Len(events_queue') > Len(events_queue) =>
            \E lo \in 0 .. Len(events_queue) :
               /\ events_queue' = InsertAt(events_queue, lo, C19_Inserted)
               /\ \A k \in 1 .. Len(events_queue) :
                     events_queue[k].event_time = C19_Inserted.event_time => k <= lo
       /\ Len(events_queue') < Len(events_queue) =>
            \/ pc # "gen" /\ pc' = "gen" /\ events_queue' = <<>>
            \/ pc = "loop" /\ events_queue' = Tail(events_queue)
                           /\ cur_event' = Head(events_queue)
       /\ Len(events_queue') = Len(events_queue) => events_queue' = events_queue]_vars

\* A follow-up event was inserted behind a queued arrival with the same event_time.
C19_Witness ==
    /\ pc = "loop"
    /\ breaches = 0
    /\ Len(events_queue) = 2
    /\ events_queue[1].event_type = "PROC_ARRIVES"
    /\ events_queue[2].event_type = "PROC_CPU_REQ"
    /\ events_queue[1].event_time = events_queue[2].event_time

\* The events of the queue, as a set.
C20_Queued(q) == {q[k] : k \in 1 .. Len(q)}

\* C20: in a run that completes every event placed in the queue is removed exactly once
\* by the loop: events leave the queue only one at a time, from its head, as the event
\* the loop processes, and the loop ends only when the queue is empty; a follow-up event
\* of type PROC_CPU_REQ is always inserted and one of type PROC_CPU_DONE never is, so
\* that no PROC_CPU_DONE event is ever queued.
C20_EventsConsumedOnce ==
    /\ [][/\ pc = "followup" /\ ret_event.event_type = "PROC_CPU_REQ" =>
               /\ Len(events_queue') = Len(events_queue) + 1
               /\ ret_event \in C20_Queued(events_queue')
               /\ C20_Queued(events_queue) \subseteq C20_Queued(events_queue')
          /\ pc = "followup" /\ ret_event.event_type = "PROC_CPU_DONE" =>
               events_queue' = events_queue
          /\ pc' # "gen" /\ events_queue' # events_queue /\ pc # "followup" /\ pc # "gen" =>
               /\ pc = "loop" /\ pc' = "update"
               /\ cur_event' = Head(events_queue)
               /\ events_queue' = Tail(events_queue)
          /\ pc' = "done" /\ pc # "done" => events_queue = <<>> /\ events_queue' = <<>>]_vars
    /\ [](/\ pc = "done" => events_queue = <<>>
          /\ \A k \in 1 .. Len(events_queue) : events_queue[k].event_type # "PROC_CPU_DONE")

\* A contract-following run of two processes has completed after two preemptions: four
\* follow-up events were returned, the two PROC_CPU_REQ among them were queued and
\* removed again, and the queue is empty.
C20_Witness ==
    /\ pc = "done"
    /\ breaches = 0
    /\ events_queue = <<>>
    /\ Len(processes) = 2
    /\ \A i \in ProcIds : Len(Proc(i).execution_times) = 2 /\ StateOf(i) = "TERMINATED"

\* The processes the promotion step has to promote.
C21_Due == {i \in ProcIds : StateOf(i) = "NEW" /\ Proc(i).arrival_time <= time}

\* C21: the promotion step of an iteration comes after the advance of the clock to the
\* popped event's time and before the selection; it sets to READY exactly the processes
\* that are NEW with arrival_time <= clock and changes nothing else of any process, so
\* at the selection step no process with arrival_time <= clock is NEW.
C21_PromotionStep ==
    /\ [][/\ pc = "loop" /\ pc' # "done" /\ pc' # "gen" =>
               /\ pc' = "update"
               /\ time' >= cur_event'.event_time /\ time' >= time
               /\ processes' = processes
          /\ pc = "update" =>
               /\ pc' = "select"
               /\ time' = time
               /\ Len(processes') = Len(processes)
               /\ \A i \in ProcIds :
                     processes'[i + 1] =
                        IF i \in C21_Due
                        THEN [Proc(i) EXCEPT !.process_state = "READY"]
                        ELSE Proc(i)]_vars
    /\ [](pc = "select" => C21_Due = {} /\ time >= cur_event.event_time)

\* At the selection step: one process has been promoted, the other, arriving later than
\* the clock, is still NEW.
C21_Witness ==
    /\ pc = "select"
    /\ Len(processes) = 2
    /\ StateOf(0) = "READY" /\ Proc(0).execution_times = <<>>
    /\ StateOf(1) = "NEW" /\ Proc(1).arrival_time > time

\* C22: whatever the workload, as long as the policy conforms (every selection so far
\* returned a READY process, every dispatch so far touched the selected process only and
\* returned PROC_CPU_REQ leaving it READY or PROC_CPU_DONE leaving it TERMINATED), at
\* least one process is READY at every selection step, also when the policy runs
\* processes other than the one the popped event names.
C22_SomeProcessReadyAtSelection ==
    pc = "select" /\ conforming => HasReady

\* At a selection step of a conforming policy the popped event is the arrival of a
\* process that the policy has already run to termination; the other process is READY.
C22_Witness ==
    /\ pc = "select"
    /\ conforming
    /\ cur_event.event_type = "PROC_ARRIVES"
    /\ StateOf(cur_event.process_id) = "TERMINATED"
    /\ HasReady

\* C23: for every TERMINATED process of a run driven by a contract-following policy, at
\* the end of the run and at any moment before it, turnaround_time() = waiting_time() +
\* service_time and waiting_time() >= 0.
C23_TurnaroundIsWaitingPlusService ==
    breaches = 0 =>
        \A i \in ProcIds :
            StateOf(i) = "TERMINATED" =>
                /\ turnaround_time(Proc(i)).raised = ""
                /\ turnaround_time(Proc(i)).value =
                       waiting_time(Proc(i)) + Proc(i).service_time
                /\ waiting_time(Proc(i)) >= 0

\* A contract-following run has ended; one of its processes arrived after time 0, ran in
\* two intervals and waited for more than the context switch of its first dispatch.
C23_Witness ==
    /\ pc = "done"
    /\ breaches = 0
    /\ context_switch_time = 1
    /\ \E i \in ProcIds :
          /\ StateOf(i) = "TERMINATED"
          /\ Proc(i).arrival_time > 0
          /\ Len(Proc(i).execution_times) = 2
          /\ waiting_time(Proc(i)) > context_switch_time

====
